---------------------------- MODULE Spec2Model ----------------------------
(***************************************************************************)
(* A model of the counter service of src/main.go: the schema migration     *)
(* (Deps.Migrate), the write path (Deps.Add), the detached aggregation     *)
(* run it spawns (Deps.CreateAggregate) and the read path (Deps.List),     *)
(* over the SQLite file the process opens (main.go:40, "sqlite3").         *)
(*                                                                         *)
(* The store is modelled as SQLite behaves in its default (rollback        *)
(* journal) mode with the driver's default "BEGIN" (deferred):             *)
(*   - BeginTx takes no lock;                                              *)
(*   - the first step of a transaction's first SELECT (rows.Next(), not    *)
(*     QueryContext, which only prepares) takes a SHARED lock, kept until  *)
(*     the transaction ends;                                               *)
(*   - a write statement takes the one RESERVED lock;                      *)
(*   - COMMIT needs every other connection to hold no lock;                *)
(*   - a statement that cannot get its lock fails (SQLITE_BUSY), and any   *)
(*     statement may fail for another reason (I/O, context done);          *)
(*   - a failed step may make SQLite roll the transaction back by itself:  *)
(*     the connection is then in autocommit mode, a later INSERT on it is  *)
(*     committed at once and COMMIT fails for want of a transaction.       *)
(* Every database call of the handlers is one step that either succeeds    *)
(* (when its lock can be had) or fails.                                    *)
(***************************************************************************)
EXTENDS Integers, Sequences, FiniteSets

\* Bounds of the model.
MaxAdds == 2          \* POST /api/add requests (and so aggregation runs)
MaxLists == 1         \* clients of GET /api/list
TicksPerSecond == 2   \* clock readings per second (time.Time is finer than RFC3339)

AddIds == 1..MaxAdds
ListIds == 1..MaxLists

\* The first reading of the wall clock. It leaves room below it for a clock
\* that is set back: each request and each run reads the clock once.
ClockStart == TicksPerSecond * (2 * MaxAdds + 1)

\* main.go:399,412,426,432,440,446,465,492,504,515 and 454,498,521
StatusInternalServerError == 500
StatusOK == 200

VARIABLES
    phase,              \* "startup" (main before ListenAndServe) | "serving"
    mig,                \* the call of Migrate by main: its place, connection, transaction
    tables,             \* the tables of the database file
    counter,            \* rows of table counter: [count, created_at]
    counter_aggregate,  \* rows of table counter_aggregate: [counts, created_at]
    now,                \* the wall clock (local time), in ticks; every time.Now()
                        \* reads a later one unless the clock was set back
    add,                \* add[i]: the activation of Deps.Add for request i
    agg,                \* agg[i]: the run of CreateAggregate spawned by request i
    list,               \* list[j]: the activation of Deps.List for client j's request
    snapLog             \* history: per committed snapshot, what its run saw

vars == <<phase, mig, tables, counter, counter_aggregate, now,
          add, agg, list, snapLog>>

(***************************************************************************)
(* Pure helpers                                                            *)
(***************************************************************************)

RECURSIVE SumCounts(_)
\* The sum of the count column over a sequence of rows.
SumCounts(rows) ==
    IF rows = <<>> THEN 0 ELSE rows[1].count + SumCounts(Tail(rows))

\* time.Time.Format(time.RFC3339): whole seconds, the fraction dropped.
FormatRFC3339(t) == t - (t % TicksPerSecond)

\* time.Unix(0, 0)
EpochZero == 0

\* CREATE TABLE name, without IF NOT EXISTS: an error when the table exists.
CreateTable(existing, name) ==
    [ok |-> name \notin existing, new |-> {name} \ existing]

\* CREATE TABLE IF NOT EXISTS name, given the tables that exist (committed or
\* staged in the transaction): whether the statement succeeds, and the
\* tables it adds to the transaction.
CreateTableIfNotExists(existing, name) ==
    [ok |-> TRUE, new |-> {name} \ existing]

\* The statements applied to the file as they run, outside the transaction:
\* what was created stays when the call fails.
TablesWithoutRollback(committed, staged) == committed \cup staged

\* The tables of the file after tx.Rollback(), or after a failed tx.Commit():
\* what the transaction created is gone with it.
TablesAfterRollback(committed, staged) == committed

\* INSERT INTO counter (count, created_at) VALUES (1, time.Now())
EventRow(t) == [count |-> 1, created_at |-> t]

\* counts = count: the sum overwritten, not accumulated.
AccumulateOverwrite(counts, count) == count

\* counts += count
Accumulate(counts, count) == counts + count

\* INSERT INTO counter_aggregate (counts, created_at) VALUES (counts, time.Now())
SnapshotRow(counts, t) == [counts |-> counts, created_at |-> t]

\* ... ORDER BY created_at ASC LIMIT 1: the oldest rows.
OldestRows(rows) ==
    {rows[k] : k \in {k \in 1..Len(rows) :
                        \A m \in 1..Len(rows) : rows[k].created_at <= rows[m].created_at}}

\* SELECT counts, created_at FROM counter_aggregate ORDER BY created_at DESC
\* LIMIT 1: the rows the query may return (any row with the greatest
\* created_at; none when the table is empty).
LatestRows(rows) ==
    {rows[k] : k \in {k \in 1..Len(rows) :
                        \A m \in 1..Len(rows) : rows[m].created_at <= rows[k].created_at}}

\* The body List writes when the query finds no row (sql.ErrNoRows).
ZeroStateBody == [status |-> StatusOK, counter |-> 0,
                  lastDate |-> FormatRFC3339(EpochZero)]

\* The body List writes for the row it scanned.
FoundBody(row) == [status |-> StatusOK, counter |-> row.counts,
                   lastDate |-> FormatRFC3339(row.created_at)]

ErrorBody == [status |-> StatusInternalServerError, counter |-> -1, lastDate |-> -1]

(***************************************************************************)
(* The locks of the database file                                          *)
(***************************************************************************)

Conns == ({"add"} \X AddIds) \cup ({"agg"} \X AddIds)

LockOf(c) == IF c[1] = "add" THEN add[c[2]].lock ELSE agg[c[2]].lock

\* A write statement gets the RESERVED lock unless another connection has it.
CanReserve(c) == \A d \in Conns \ {c} : LockOf(d) # "RESERVED"

\* COMMIT gets the EXCLUSIVE lock only when no other connection holds a lock.
CanCommit(c) == \A d \in Conns \ {c} : LockOf(d) = "NONE"

(***************************************************************************)
(* Initial state: a fresh database file, the process just started.         *)
(***************************************************************************)

AllTables == {"counter", "counter_aggregate"}

\* Migrate about to be called by main, on the database as it is.
\* had, rows0, fault and failedAt are history: the tables and rows at the
\* call, whether the store failed a step of this call for a reason of its
\* own, and the step at which the call returned its error.
MigrateCall(ts, c, ca) ==
    [pc |-> "conn", conn |-> FALSE, tx |-> FALSE, staged |-> {},
     had |-> ts, rows0 |-> <<c, ca>>, fault |-> FALSE, failedAt |-> "none"]

\* A request to /api/add not yet received. row is history: the index in
\* counter of the row this request committed (0: none). cancelled tells
\* whether r.Context() is done: "no", or "early" (the client went away before
\* tx.Commit() returned nil) or "late" (after); runAtCancel is history:
\* whether the request's run was not spawned, running or returned then.
\* stamp is the value of time.Now() read for the INSERT (0: none held).
AddIdle == [pc |-> "idle", lock |-> "NONE", tx |-> FALSE, conn |-> FALSE,
            staged |-> <<>>, resp |-> 0, row |-> 0, stamp |-> 0,
            cancelled |-> "no", runAtCancel |-> "none"]

\* No run of CreateAggregate. view is the rows its transaction reads, cursor
\* the rows it has stepped over, counts its running sum, rowsErr whether
\* rows.Next() ended on an error (rows.Err()); atStart is history: the
\* number of rows of counter when the run was spawned; err is history: a
\* call of the run returned an error to it. stamp is the value of
\* time.Now() read for the INSERT (0: none held); auto tells that SQLite
\* has rolled the run's transaction back by itself (autocommit mode) while
\* the sql.Tx is still open; waited is history: the run returned through a
\* branch that left its transaction open until its context was done.
AggNone == [pc |-> "none", lock |-> "NONE", tx |-> FALSE, conn |-> FALSE,
            view |-> <<>>, cursor |-> 0, counts |-> 0, rowsErr |-> FALSE,
            staged |-> <<>>, atStart |-> 0, err |-> FALSE,
            stamp |-> 0, auto |-> FALSE, waited |-> FALSE]

NoBody == [status |-> 0, counter |-> -1, lastDate |-> -1]

\* A request to /api/list not yet received. events, snaps and fault are
\* history: the number of rows of counter and of counter_aggregate when its
\* query ran, and whether the store failed a step of the request.
ListIdle == [pc |-> "idle", conn |-> FALSE, resp |-> NoBody,
             events |-> 0, snaps |-> 0, fault |-> FALSE]

Init ==
    /\ phase = "startup"
    /\ mig = MigrateCall({}, <<>>, <<>>)
    /\ tables = {}
    /\ counter = <<>>
    /\ counter_aggregate = <<>>
    /\ now = ClockStart
    /\ add = [i \in AddIds |-> AddIdle]
    /\ agg = [i \in AddIds |-> AggNone]
    /\ list = [j \in ListIds |-> ListIdle]
    /\ snapLog = <<>>

(***************************************************************************)
(* Deps.Migrate, called by main before the server starts (main.go:58).     *)
(* An error is fatal to the process (log.Fatalln, main.go:60).             *)
(***************************************************************************)

\* d.DB.Conn(ctx)
MigrateConn ==
    /\ phase = "startup" /\ mig.pc = "conn"
    /\ \E fault \in BOOLEAN :
         mig' = IF fault
                THEN [mig EXCEPT !.pc = "fatal", !.fault = TRUE, !.failedAt = "conn"]
                ELSE [mig EXCEPT !.pc = "begin", !.conn = TRUE]
    /\ UNCHANGED <<phase, tables, counter, counter_aggregate, now,
                   add, agg, list, snapLog>>

\* c.BeginTx(ctx, serializable); on error the deferred c.Close() runs.
MigrateBegin ==
    /\ phase = "startup" /\ mig.pc = "begin"
    /\ \E fault \in BOOLEAN :
         mig' = IF fault
                THEN [mig EXCEPT !.pc = "fatal", !.fault = TRUE, !.conn = FALSE,
                                 !.failedAt = "begin"]
                ELSE [mig EXCEPT !.pc = "create1", !.tx = TRUE]
    /\ UNCHANGED <<phase, tables, counter, counter_aggregate, now,
                   add, agg, list, snapLog>>

\* tx.ExecContext(CREATE TABLE IF NOT EXISTS <name>); on error tx.Rollback()
\* and return: the staged tables are dropped with the transaction.
MigrateCreate(at, name, next) ==
    /\ phase = "startup" /\ mig.pc = at
    /\ \E fault \in BOOLEAN :
         LET r == CreateTableIfNotExists(tables \cup mig.staged, name) IN
         IF fault \/ ~r.ok
         THEN /\ mig' = [mig EXCEPT !.pc = "fatal", !.fault = fault, !.tx = FALSE,
                                    !.staged = {}, !.conn = FALSE, !.failedAt = at]
              /\ tables' = TablesAfterRollback(tables, mig.staged)
         ELSE /\ mig' = [mig EXCEPT !.pc = next, !.staged = mig.staged \cup r.new]
              /\ UNCHANGED tables
    /\ UNCHANGED <<phase, counter, counter_aggregate, now,
                   add, agg, list, snapLog>>

MigrateCreateCounter == MigrateCreate("create1", "counter", "create2")

MigrateCreateAggregate == MigrateCreate("create2", "counter_aggregate", "commit")

\* tx.Commit(): the staged tables become tables of the file, or (on error)
\* none does; either way the transaction is over and the connection closed.
MigrateCommit ==
    /\ phase = "startup" /\ mig.pc = "commit"
    /\ \E fault \in BOOLEAN :
         IF fault
         THEN /\ mig' = [mig EXCEPT !.pc = "fatal", !.fault = TRUE, !.tx = FALSE,
                                    !.staged = {}, !.conn = FALSE,
                                    !.failedAt = "commit"]
              /\ tables' = TablesAfterRollback(tables, mig.staged)
         ELSE /\ mig' = [mig EXCEPT !.pc = "done", !.tx = FALSE, !.staged = {},
                                    !.conn = FALSE]
              /\ tables' = tables \cup mig.staged
    /\ UNCHANGED <<phase, counter, counter_aggregate, now,
                   add, agg, list, snapLog>>

\* main after a successful Migrate: the handlers are registered and the
\* server listens (main.go:63-83).
StartServer ==
    /\ phase = "startup" /\ mig.pc = "done"
    /\ phase' = "serving"
    /\ UNCHANGED <<mig, tables, counter, counter_aggregate, now,
                   add, agg, list, snapLog>>

(***************************************************************************)
(* Deps.Add: POST /api/add                                                 *)
(***************************************************************************)

\* The handler's error branch: 500 is written and the handler returns; the
\* deferred conn.Close() ends what is left of the connection.
AddFail(a) ==
    [a EXCEPT !.pc = "done", !.resp = StatusInternalServerError, !.lock = "NONE",
              !.tx = FALSE, !.conn = FALSE, !.staged = <<>>, !.stamp = 0]

\* Add with the error of tx.Commit() not looked at.
AddAfterCommitUnchecked(a, ok, rowIndex) ==
    [a EXCEPT !.pc = "spawn", !.lock = "NONE", !.tx = FALSE,
              !.staged = <<>>, !.row = rowIndex]

\* Where Add goes after tx.Commit(): on to the go statement when the commit
\* succeeded, into the error branch otherwise.
AddAfterCommit(a, ok, rowIndex) ==
    IF ok
    THEN [a EXCEPT !.pc = "spawn", !.lock = "NONE", !.tx = FALSE,
                   !.staged = <<>>, !.row = rowIndex]
    ELSE AddFail(a)

\* r.Context() is done: every call given it returns its error.
AddCtxDone(i) == add[i].cancelled # "no"

\* The run's context taken from the request (r.Context()) in place of
\* context.Background().
RunCtxFromRequest(i) == add[i].cancelled # "no"

\* Whether the request's cancellation ends the context of the run it
\* spawned: never, the run's context descends from context.Background().
RunCtxDoneWithRequest(i) == FALSE

\* The client of request i goes away while the handler runs.
ClientDisconnect(i) ==
    /\ add[i].pc \in {"begin", "now", "insert", "commit", "spawn", "respond"}
    /\ add[i].cancelled = "no"
    /\ add' = [add EXCEPT ![i] =
                 [@ EXCEPT !.cancelled = IF add[i].pc \in {"spawn", "respond"}
                                         THEN "late" ELSE "early",
                           !.runAtCancel =
                               IF agg[i].pc \in {"none", "done", "failed"}
                               THEN agg[i].pc ELSE "running"]]
    /\ UNCHANGED <<phase, mig, tables, counter, counter_aggregate, now,
                   agg, list, snapLog>>

\* d.DB.Conn(r.Context()). Requests are numbered in the order the server
\* receives them.
AddConn(i) ==
    /\ phase = "serving" /\ add[i].pc = "idle"
    /\ \A k \in AddIds : k < i => add[k].pc # "idle"
    /\ \E fault \in BOOLEAN :
         add' = [add EXCEPT ![i] =
                   IF fault THEN AddFail(@)
                   ELSE [@ EXCEPT !.pc = "begin", !.conn = TRUE]]
    /\ UNCHANGED <<phase, mig, tables, counter, counter_aggregate, now,
                   agg, list, snapLog>>

\* conn.BeginTx(r.Context(), serializable): BEGIN, which takes no lock.
AddBegin(i) ==
    /\ add[i].pc = "begin"
    /\ \E fault \in BOOLEAN :
         /\ fault \/ ~AddCtxDone(i)
         /\ add' = [add EXCEPT ![i] =
                   IF fault THEN AddFail(@)
                   ELSE [@ EXCEPT !.pc = "now", !.tx = TRUE]]
    /\ UNCHANGED <<phase, mig, tables, counter, counter_aggregate, now,
                   agg, list, snapLog>>

\* time.Now(), the argument of the INSERT, read before tx.ExecContext is
\* entered (and so before the statement waits for its lock).
AddTimeNow(i) ==
    /\ add[i].pc = "now"
    /\ add' = [add EXCEPT ![i] = [@ EXCEPT !.pc = "insert", !.stamp = now]]
    /\ now' = now + 1
    /\ UNCHANGED <<phase, mig, tables, counter, counter_aggregate,
                   agg, list, snapLog>>

\* tx.ExecContext(INSERT INTO counter ... 1, <the time read>): the row is
\* staged in the transaction under the RESERVED lock; on error tx.Rollback().
AddInsert(i) ==
    /\ add[i].pc = "insert"
    /\ \E fault \in BOOLEAN :
         /\ fault \/ ("counter" \in tables /\ CanReserve(<<"add", i>>) /\ ~AddCtxDone(i))
         /\ add' = [add EXCEPT ![i] =
                      IF fault THEN AddFail(@)
                      ELSE [@ EXCEPT !.pc = "commit", !.lock = "RESERVED",
                                     !.staged = <<EventRow(add[i].stamp)>>,
                                     !.stamp = 0]]
    /\ UNCHANGED <<phase, mig, tables, counter, counter_aggregate, now,
                   agg, list, snapLog>>

\* tx.Commit(): the staged row becomes a row of counter, or (on error) the
\* transaction is rolled back.
AddCommit(i) ==
    /\ add[i].pc = "commit"
    /\ \E fault \in BOOLEAN :
         /\ fault \/ (CanCommit(<<"add", i>>) /\ ~AddCtxDone(i))
         /\ add' = [add EXCEPT ![i] = AddAfterCommit(@, ~fault, Len(counter) + 1)]
         /\ counter' = IF fault THEN counter ELSE counter \o add[i].staged
    /\ UNCHANGED <<phase, mig, tables, counter_aggregate, now,
                   agg, list, snapLog>>

\* The go statement skipped while another run is under way.
AddSpawnDeduplicated(i) ==
    /\ add[i].pc = "spawn"
    /\ add' = [add EXCEPT ![i].pc = "respond"]
    /\ agg' = IF \E k \in AddIds : agg[k].pc \notin {"none", "done", "failed"}
              THEN agg
              ELSE [agg EXCEPT ![i] = [AggNone EXCEPT !.pc = "conn",
                                                      !.atStart = Len(counter)]]
    /\ UNCHANGED <<phase, mig, tables, counter, counter_aggregate, now,
                   list, snapLog>>

\* go d.CreateAggregate()
AddSpawn(i) ==
    /\ add[i].pc = "spawn"
    /\ add' = [add EXCEPT ![i].pc = "respond"]
    /\ agg' = [agg EXCEPT ![i] = [AggNone EXCEPT !.pc = "conn",
                                                 !.atStart = Len(counter)]]
    /\ UNCHANGED <<phase, mig, tables, counter, counter_aggregate, now,
                   list, snapLog>>

\* w.WriteHeader(http.StatusOK); the handler returns and conn.Close() runs.
AddRespond(i) ==
    /\ add[i].pc = "respond"
    /\ add' = [add EXCEPT ![i] = [@ EXCEPT !.pc = "done", !.resp = StatusOK,
                                           !.conn = FALSE]]
    /\ UNCHANGED <<phase, mig, tables, counter, counter_aggregate, now,
                   agg, list, snapLog>>

(***************************************************************************)
(* Deps.CreateAggregate: the detached run, under its own 30 s context      *)
(***************************************************************************)

\* The run has returned: its connection is closed and its locals are gone.
AggReturned(g, pc) ==
    [AggNone EXCEPT !.pc = pc, !.err = g.err, !.waited = g.waited]

\* log.Println(err); return, with no transaction left open: the deferred
\* c.Close() ends the connection.
AggFail(g) == AggReturned(g, "failed")

\* The return with a c.Close() that does not wait: the connection goes back
\* to the pool and the run ends with its transaction open.
AggReturnLeavingTx(g) == [g EXCEPT !.pc = "failed", !.conn = FALSE, !.waited = TRUE]

\* log.Println(err); return, with the transaction still open (no Rollback
\* on these branches): the deferred c.Close() waits for the transaction,
\* which ends when the run's context is done.
AggReturnOpenTx(g) == [g EXCEPT !.pc = "closing", !.waited = TRUE]

\* "if rows.Next()" in place of "for rows.Next()": one row read at most.
AggLoopStepOnce(g, fault, lock) ==
    CASE fault = "next" -> [g EXCEPT !.pc = "now", !.rowsErr = TRUE, !.lock = lock]
      [] fault = "scan" -> [g EXCEPT !.pc = "closing", !.waited = TRUE]
      [] OTHER ->
           IF g.cursor < Len(g.view) /\ g.cursor < 1
           THEN [g EXCEPT !.cursor = g.cursor + 1,
                          !.counts = g.counts + g.view[g.cursor + 1].count]
           ELSE [g EXCEPT !.pc = "now"]

\* The loop "for rows.Next() { rows.Scan(&count); counts += count }", one
\* call of rows.Next() at a time. fault "next": rows.Next() returns false on
\* an error, which leaves the loop like the end of the rows (rows.Err() is
\* not read). fault "scan": rows.Scan fails. g is the run with the
\* statement's lock and rows as the call of rows.Next() left them.
AggLoopStep(g, fault, lock) ==
    CASE fault = "next" -> [g EXCEPT !.pc = "now", !.rowsErr = TRUE, !.lock = lock]
      [] fault = "scan" -> AggReturnOpenTx(g)
      [] OTHER ->
           IF g.cursor < Len(g.view)
           THEN [g EXCEPT !.cursor = g.cursor + 1,
                          !.counts = Accumulate(g.counts, g.view[g.cursor + 1].count)]
           ELSE [g EXCEPT !.pc = "now"]

\* The first step of the SELECT: it takes the SHARED lock, and the rows the
\* statement returns are those committed by then (no commit can happen
\* while the lock is held). Later steps change neither.
AggFirstStep(g, rows) ==
    IF g.lock = "NONE" THEN [g EXCEPT !.lock = "SHARED", !.view = rows] ELSE g

\* d.DB.Conn(ctx)
AggConn(i) ==
    /\ agg[i].pc = "conn"
    /\ \E fault \in BOOLEAN :
         /\ fault \/ ~RunCtxDoneWithRequest(i)
         /\ agg' = [agg EXCEPT ![i] =
                   IF fault THEN AggFail([@ EXCEPT !.err = TRUE])
                   ELSE [@ EXCEPT !.pc = "begin", !.conn = TRUE]]
    /\ UNCHANGED <<phase, mig, tables, counter, counter_aggregate, now,
                   add, list, snapLog>>

\* c.BeginTx(ctx, serializable): BEGIN, which takes no lock.
AggBegin(i) ==
    /\ agg[i].pc = "begin"
    /\ \E fault \in BOOLEAN :
         /\ fault \/ ~RunCtxDoneWithRequest(i)
         /\ agg' = [agg EXCEPT ![i] =
                   IF fault THEN AggFail([@ EXCEPT !.err = TRUE])
                   ELSE [@ EXCEPT !.pc = "query", !.tx = TRUE]]
    /\ UNCHANGED <<phase, mig, tables, counter, counter_aggregate, now,
                   add, list, snapLog>>

\* tx.QueryContext(SELECT count FROM counter): the statement is prepared;
\* no lock is taken and no row read before the first rows.Next().
AggQuery(i) ==
    /\ agg[i].pc = "query"
    /\ \E fault \in BOOLEAN :
         /\ fault \/ ("counter" \in tables /\ ~RunCtxDoneWithRequest(i))
         /\ agg' = [agg EXCEPT ![i] =
                      IF fault THEN AggReturnOpenTx([@ EXCEPT !.err = TRUE])
                      ELSE [@ EXCEPT !.pc = "rows", !.cursor = 0, !.counts = 0]]
    /\ UNCHANGED <<phase, mig, tables, counter, counter_aggregate, now,
                   add, list, snapLog>>

\* One turn of the loop: one call of rows.Next(). A call that fails
\* (fault "next") leaves the transaction in one of three ways: it failed
\* before the statement's first step got its lock (SQLITE_BUSY: no lock, the
\* transaction goes on); it failed with the lock held and the transaction
\* goes on; or SQLite rolled the transaction back on the error (an I/O
\* error, say): no lock is held and the connection is in autocommit mode.
AggNext(i) ==
    /\ agg[i].pc = "rows"
    /\ \E fault \in {"none", "next", "scan"}, lock \in {"NONE", "SHARED"},
          ended \in BOOLEAN :
         /\ fault # "next" => (lock = "SHARED" /\ ~ended)
         /\ fault = "next" => /\ ended => lock = "NONE"
                              /\ (~ended /\ lock = "NONE") => agg[i].lock = "NONE"
         /\ fault = "none" => ~RunCtxDoneWithRequest(i)
         /\ LET stepped == IF lock = "SHARED" THEN AggFirstStep(agg[i], counter)
                           ELSE agg[i]
                g == [stepped EXCEPT !.err = (fault = "scan"), !.auto = ended]
            IN /\ fault = "scan" => g.cursor < Len(g.view)
               /\ agg' = [agg EXCEPT ![i] = AggLoopStep(g, fault, lock)]
    /\ UNCHANGED <<phase, mig, tables, counter, counter_aggregate, now,
                   add, list, snapLog>>

\* time.Now(), the argument of the INSERT, read before tx.ExecContext is
\* entered (and so before the statement waits for its lock).
AggTimeNow(i) ==
    /\ agg[i].pc = "now"
    /\ agg' = [agg EXCEPT ![i] = [@ EXCEPT !.pc = "insert", !.stamp = now]]
    /\ now' = now + 1
    /\ UNCHANGED <<phase, mig, tables, counter, counter_aggregate,
                   add, list, snapLog>>

\* The table kept to its newest row: the committed row takes the place of
\* the rows before it.
ReplaceSnapshot(rows, staged) == staged

\* INSERT INTO counter_aggregate (counts, created_at) VALUES (?, ?),
\* committed: the row is added after the rows the table has.
InsertSnapshot(rows, staged) == rows \o staged

\* What the history records of a snapshot at its commit.
SnapEntry(i) ==
    [run |-> i, visible |-> Len(agg[i].view), scanned |-> agg[i].cursor,
     rowsErr |-> agg[i].rowsErr, atStart |-> agg[i].atStart,
     events |-> Len(counter)]

\* tx.ExecContext(INSERT INTO counter_aggregate ... counts, <the time
\* read>); on error tx.Rollback(). In the run's transaction the row is
\* staged under the RESERVED lock. On a connection SQLite has put back in
\* autocommit mode the statement is its own transaction: it needs the file
\* free of other locks and the row is committed at once.
AggInsert(i) ==
    /\ agg[i].pc = "insert"
    /\ \E fault \in BOOLEAN :
         /\ fault \/ ( /\ "counter_aggregate" \in tables
                       /\ ~RunCtxDoneWithRequest(i)
                       /\ IF agg[i].auto THEN CanCommit(<<"agg", i>>)
                                         ELSE CanReserve(<<"agg", i>>) )
         /\ LET row == SnapshotRow(agg[i].counts, agg[i].stamp) IN
            CASE fault ->
                   /\ agg' = [agg EXCEPT ![i] = AggFail([@ EXCEPT !.err = TRUE])]
                   /\ UNCHANGED <<counter_aggregate, snapLog>>
              [] ~fault /\ agg[i].auto ->
                   /\ agg' = [agg EXCEPT ![i] = [@ EXCEPT !.pc = "commit", !.stamp = 0]]
                   /\ counter_aggregate' = InsertSnapshot(counter_aggregate, <<row>>)
                   /\ snapLog' = Append(snapLog, SnapEntry(i))
              [] OTHER ->
                   /\ agg' = [agg EXCEPT ![i] =
                                [@ EXCEPT !.pc = "commit", !.lock = "RESERVED",
                                          !.staged = <<row>>, !.stamp = 0]]
                   /\ UNCHANGED <<counter_aggregate, snapLog>>
    /\ UNCHANGED <<phase, mig, tables, counter, now, add, list>>

\* tx.Commit(): the staged snapshot becomes a row of counter_aggregate, or
\* (on error) the transaction is rolled back; then the run returns. With
\* no transaction left in SQLite, COMMIT can only fail.
AggCommit(i) ==
    /\ agg[i].pc = "commit"
    /\ \E fault \in BOOLEAN :
         /\ fault \/ (~agg[i].auto /\ CanCommit(<<"agg", i>>)
                      /\ ~RunCtxDoneWithRequest(i))
         /\ IF fault
            THEN /\ agg' = [agg EXCEPT ![i] = AggFail([@ EXCEPT !.err = TRUE])]
                 /\ UNCHANGED <<counter_aggregate, snapLog>>
            ELSE /\ agg' = [agg EXCEPT ![i] = AggReturned(@, "done")]
                 /\ counter_aggregate' = InsertSnapshot(counter_aggregate, agg[i].staged)
                 /\ snapLog' = Append(snapLog, SnapEntry(i))
    /\ UNCHANGED <<phase, mig, tables, counter, now, add, list>>

\* The run's context is done (its 30 s deadline): the transaction a branch
\* left open is rolled back, and the pending c.Close() returns.
AggAwaitDone(i) ==
    /\ agg[i].pc = "closing"
    /\ agg' = [agg EXCEPT ![i] = AggFail(@)]
    /\ UNCHANGED <<phase, mig, tables, counter, counter_aggregate, now,
                   add, list, snapLog>>

(***************************************************************************)
(* Deps.List: GET /api/list, under a 15 s context                          *)
(***************************************************************************)

\* List without the errors.Is(err, sql.ErrNoRows) branch.
ListBodyNoRowsIsError(fault, found) ==
    IF fault \/ found = <<>> THEN ErrorBody ELSE FoundBody(found[1])

\* The handler's answer to the outcome of QueryRowContext(...).Scan(...):
\* sql.ErrNoRows is the zero state, another error a 500, a row its values.
ListBody(fault, found) ==
    IF fault THEN ErrorBody
    ELSE IF found = <<>> THEN ZeroStateBody
    ELSE FoundBody(found[1])

\* The rows of counter_aggregate a statement outside the runs' transactions
\* reads: the committed ones.
CommittedSnapshots == counter_aggregate

\* d.DB.Conn(ctx). Until the request is answered the record keeps the
\* answer to the client's request before it, if there was one.
ListConn(j) ==
    /\ phase = "serving" /\ list[j].pc = "idle"
    /\ \E fault \in BOOLEAN :
         list' = [list EXCEPT ![j] =
                    IF fault THEN [ListIdle EXCEPT !.pc = "done", !.resp = ErrorBody,
                                                   !.fault = TRUE]
                    ELSE [@ EXCEPT !.pc = "query", !.conn = TRUE]]
    /\ UNCHANGED <<phase, mig, tables, counter, counter_aggregate, now,
                   add, agg, snapLog>>

\* c.QueryRowContext(SELECT ... ORDER BY created_at DESC LIMIT 1).Scan(...),
\* the response, and the deferred c.Close(). The query is one statement
\* outside any transaction: it reads the committed rows.
ListQuery(j) ==
    /\ list[j].pc = "query"
    /\ \E fault \in BOOLEAN :
         /\ fault \/ "counter_aggregate" \in tables
         /\ \E found \in (IF fault \/ CommittedSnapshots = <<>> THEN {<<>>}
                          ELSE {<<r>> : r \in LatestRows(CommittedSnapshots)}) :
              list' = [list EXCEPT ![j] =
                         [@ EXCEPT !.pc = "done", !.conn = FALSE,
                                   !.resp = ListBody(fault, found),
                                   !.fault = fault,
                                   !.events = Len(counter),
                                   !.snaps = Len(counter_aggregate)]]
    /\ UNCHANGED <<phase, mig, tables, counter, counter_aggregate, now,
                   add, agg, snapLog>>

\* The client, answered, sends its next request: the reads of a client that
\* polls, each sent after the one before it was answered.
ListAgain(j) ==
    /\ phase = "serving" /\ list[j].pc = "done"
    /\ list' = [list EXCEPT ![j].pc = "idle"]
    /\ UNCHANGED <<phase, mig, tables, counter, counter_aggregate, now,
                   add, agg, snapLog>>

(***************************************************************************)
(* The process and its machine                                             *)
(***************************************************************************)

\* The local wall clock is set back (by an operator or a time service, or
\* by the zone's offset dropping at the end of summer time): time.Now()
\* then reads, and the INSERTs store, values below those stored before.
\* The model sets the clock back once, to before the start of the process,
\* at any moment at which counter_aggregate holds a snapshot.
ClockSetBack ==
    /\ phase = "serving" /\ now >= ClockStart /\ counter_aggregate # <<>>
    /\ now' = now - (ClockStart - 1)
    /\ UNCHANGED <<phase, mig, tables, counter, counter_aggregate,
                   add, agg, list, snapLog>>

\* No request is being handled and no aggregation run is under way.
Quiescent ==
    /\ \A i \in AddIds : add[i].pc \in {"idle", "done"}
    /\ \A i \in AddIds : agg[i].pc \in {"none", "done", "failed"}
    /\ \A j \in ListIds : list[j].pc \in {"idle", "done"}

\* Every request of the model has been received.
AllReceived ==
    /\ \A i \in AddIds : add[i].pc # "idle"
    /\ \A j \in ListIds : list[j].pc # "idle"

\* The process ends (Migrate's error is fatal, main.go:60; a signal stops the
\* server, main.go:85-92) and is started again on the same database file.
\* The model stops a serving process only at rest, after the last of the
\* requests it bounds.
Restart ==
    /\ \/ phase = "startup" /\ mig.pc = "fatal"
       \/ phase = "serving" /\ Quiescent /\ AllReceived
    /\ phase' = "startup"
    /\ mig' = MigrateCall(tables, counter, counter_aggregate)
    /\ UNCHANGED <<tables, counter, counter_aggregate, now, add, agg, list, snapLog>>

\* The steps of the four operations of a process that runs on.
Serve ==
    \/ MigrateConn
    \/ MigrateBegin
    \/ MigrateCreateCounter
    \/ MigrateCreateAggregate
    \/ MigrateCommit
    \/ StartServer
    \/ \E i \in AddIds :
         \/ AddConn(i)
         \/ AddBegin(i)
         \/ AddTimeNow(i)
         \/ AddInsert(i)
         \/ AddCommit(i)
         \/ AddSpawn(i)
         \/ AddRespond(i)
         \/ AggConn(i)
         \/ AggBegin(i)
         \/ AggQuery(i)
         \/ AggNext(i)
         \/ AggTimeNow(i)
         \/ AggInsert(i)
         \/ AggCommit(i)
         \/ AggAwaitDone(i)
    \/ \E j \in ListIds :
         \/ ListConn(j)
         \/ ListQuery(j)

Next ==
    \/ Serve
    \/ Restart

Spec == Init /\ [][Next]_vars

\* The service with clients that may go away during POST /api/add, and no
\* reads.
NextCancel ==
    \/ MigrateConn
    \/ MigrateBegin
    \/ MigrateCreateCounter
    \/ MigrateCreateAggregate
    \/ MigrateCommit
    \/ StartServer
    \/ Restart
    \/ \E i \in AddIds :
         \/ ClientDisconnect(i)
         \/ AddConn(i)
         \/ AddBegin(i)
         \/ AddTimeNow(i)
         \/ AddInsert(i)
         \/ AddCommit(i)
         \/ AddSpawn(i)
         \/ AddRespond(i)
         \/ AggConn(i)
         \/ AggBegin(i)
         \/ AggQuery(i)
         \/ AggNext(i)
         \/ AggTimeNow(i)
         \/ AggInsert(i)
         \/ AggCommit(i)
         \/ AggAwaitDone(i)

SpecCancel == Init /\ [][NextCancel]_vars

\* The service with a client of GET /api/list that polls without end.
NextPolling ==
    \/ Serve
    \/ \E j \in ListIds : ListAgain(j)

SpecPolling == Init /\ [][NextPolling]_vars

\* The service on a machine whose wall clock may be set back.
NextClockSetBack ==
    \/ Serve
    \/ ClockSetBack

SpecClockSetBack == Init /\ [][NextClockSetBack]_vars

(***************************************************************************)
(* Properties                                                              *)
(***************************************************************************)

\* The requests whose row is committed, the runs spawned, the runs that
\* committed a snapshot.
Committed == {i \in AddIds : add[i].row # 0}
Spawned == {i \in AddIds : agg[i].pc # "none"}
SnapRuns == {snapLog[k].run : k \in 1..Len(snapLog)}

\* The rows of counter at a moment when it had n rows (it only grows).
EventsUpTo(n) == SubSeq(counter, 1, n)

\* C1: a run that met no error, spawned when counter held N rows and
\* committing while it still holds N rows (no insert in between), writes a
\* snapshot with counts = N; the rows are those of the N successful adds,
\* each with count 1.
C1_CountsEqualN ==
    /\ Len(snapLog) = Len(counter_aggregate)
    /\ \A k \in 1..Len(snapLog) :
         (~snapLog[k].rowsErr /\ snapLog[k].atStart = snapLog[k].events)
           => counter_aggregate[k].counts = snapLog[k].events

C1_Witness ==
    \E k \in 1..Len(snapLog) :
        /\ ~snapLog[k].rowsErr
        /\ snapLog[k].atStart = MaxAdds /\ snapLog[k].events = MaxAdds
        /\ counter_aggregate[k].counts = MaxAdds
        /\ \A i \in AddIds : add[i].resp = StatusOK

\* C2 (the claim as stated): of two reads of a client that succeed, the
\* second sent after the first was answered, the second returns a counter
\* that is not less than the one the first returned.
C2_MonotonicReads ==
    [][ \A j \in ListIds :
          ( /\ list[j].pc = "query" /\ list[j].resp.status = StatusOK
            /\ list'[j].pc = "done" /\ list'[j].resp.status = StatusOK )
            => list'[j].resp.counter >= list[j].resp.counter
      ]_vars

\* C3: a read whose query ran without a store failure while counter_aggregate
\* held no row answers 200 with counter 0 and the epoch as lastDate,
\* whatever counter holds.
C3_ZeroState ==
    \A j \in ListIds :
        (list[j].pc = "done" /\ ~list[j].fault /\ list[j].snaps = 0)
          => /\ list[j].resp.status = StatusOK
             /\ list[j].resp.counter = 0
             /\ list[j].resp.lastDate = EpochZero

C3_Witness ==
    \E j \in ListIds :
        /\ list[j].pc = "done" /\ ~list[j].fault
        /\ list[j].snaps = 0 /\ list[j].events = MaxAdds
        /\ list[j].resp.status = StatusOK

\* C4: a read whose query ran without a store failure while counter_aggregate
\* held n >= 1 rows answers 200 with the counts of one of those rows whose
\* created_at is the greatest among them, and with that created_at as an
\* RFC3339 string (whole seconds).
C4_LatestSnapshot ==
    \A j \in ListIds :
        (list[j].pc = "done" /\ ~list[j].fault /\ list[j].snaps >= 1)
          => /\ list[j].snaps <= Len(counter_aggregate)
             /\ list[j].resp.status = StatusOK
             /\ \E k \in 1..list[j].snaps :
                  /\ \A m \in 1..list[j].snaps :
                       counter_aggregate[m].created_at <= counter_aggregate[k].created_at
                  /\ list[j].resp.counter = counter_aggregate[k].counts
                  /\ list[j].resp.lastDate =
                       FormatRFC3339(counter_aggregate[k].created_at)

\* Two snapshots, the second stored after the clock was set back: the read
\* answers with the first, whose created_at is the greater.
C4_Witness ==
    \E j \in ListIds :
        /\ list[j].pc = "done" /\ ~list[j].fault /\ list[j].snaps = 2
        /\ counter_aggregate[1].created_at >= ClockStart
        /\ counter_aggregate[2].created_at < ClockStart
        /\ counter_aggregate[1].counts # counter_aggregate[2].counts
        /\ list[j].resp.counter = counter_aggregate[1].counts

\* C5: the rows of counter are exactly the rows of the requests that got past
\* tx.Commit(), one row with count 1 each; a request answered 500 has
\* committed no row, staged none and spawned no run; a request is answered
\* 200 only with its one row committed.
C5_AddAtomic ==
    /\ Len(counter) = Cardinality(Committed)
    /\ \A i \in Committed :
         /\ add[i].row \in 1..Len(counter)
         /\ counter[add[i].row].count = 1
         /\ \A k \in Committed : k # i => add[k].row # add[i].row
    /\ \A i \in AddIds :
         /\ add[i].pc = "done" => add[i].resp \in {StatusOK, StatusInternalServerError}
         /\ add[i].resp = StatusInternalServerError
              => i \notin Committed /\ i \notin Spawned /\ add[i].staged = <<>>
         /\ add[i].resp = StatusOK => i \in Committed

C5_Witness ==
    \E i, k \in AddIds :
        /\ add[i].resp = StatusInternalServerError
        /\ add[k].resp = StatusOK
        /\ Len(counter) = 1

\* C6: a call of Migrate on a database that has both tables stages nothing,
\* leaves the tables and all their rows as they were at the call, and fails
\* only when the store fails a step.
C6_MigrateIdempotent ==
    (phase = "startup" /\ mig.had = AllTables)
      => /\ tables = AllTables
         /\ mig.staged = {}
         /\ <<counter, counter_aggregate>> = mig.rows0
         /\ mig.pc = "fatal" => mig.fault

C6_Witness ==
    /\ phase = "startup" /\ mig.had = AllTables /\ mig.pc = "done"
    /\ Len(counter) = MaxAdds /\ counter_aggregate # <<>>

\* C7: a run is spawned only by a request whose row is committed, every
\* request past its commit has spawned its run (whatever other runs are under
\* way) once it is past the go statement, a 200 is only sent after the
\* spawn, and the response step never waits: it is enabled in whatever state
\* the run is.
C7_SpawnPerCommit ==
    /\ Cardinality(Committed) = Len(counter)
    /\ Spawned \subseteq Committed
    /\ \A i \in Committed : add[i].pc = "spawn" \/ i \in Spawned
    /\ \A i \in AddIds : add[i].resp = StatusOK => i \in Spawned
    /\ \A i \in AddIds : add[i].pc = "respond" => ENABLED AddRespond(i)

\* Two runs under way at once, and a 200 sent while its run has not started.
C7_Witness ==
    /\ \A i \in AddIds : agg[i].pc \in {"conn", "begin", "query", "rows"}
    /\ \E i \in AddIds : add[i].resp = StatusOK /\ agg[i].pc = "conn"

\* C8 (the claim as stated): every snapshot's counts is the sum of count over
\* the rows its transaction's read saw, and is at most the sum over the rows
\* of counter at its commit.
C8_CountsEqualVisibleSum ==
    \A k \in 1..Len(snapLog) :
        /\ counter_aggregate[k].counts = SumCounts(EventsUpTo(snapLog[k].visible))
        /\ counter_aggregate[k].counts <= SumCounts(EventsUpTo(snapLog[k].events))

\* C9: the row of the request that spawned a run is always among the rows the
\* run's statement reads once it has taken its read lock (the run is spawned
\* after the commit); the snapshot's sum leaves it out only when rows.Next()
\* ended the loop on an error.
C9_TriggerOmittedOnlyOnRowsErr ==
    \A k \in 1..Len(snapLog) :
        LET e == snapLog[k] IN
        /\ e.visible # 0 => add[e.run].row \in 1..e.visible
        /\ e.scanned < add[e.run].row => e.rowsErr

\* A committed snapshot whose run stepped over fewer rows than the row that
\* triggered it.
C9_Witness ==
    \E k \in 1..Len(snapLog) :
        /\ snapLog[k].scanned < add[snapLog[k].run].row
        /\ counter_aggregate[k].counts < add[snapLog[k].run].row

\* C10 (the claim as stated): a run one of whose calls returned an error has
\* added no snapshot to counter_aggregate; the rows of counter are those of
\* the committed requests; and the request that spawned the run is answered
\* 200.
C10_FailedRunWritesNothing ==
    /\ Len(counter) = Cardinality(Committed)
    /\ \A i \in AddIds :
         agg[i].err
           => /\ i \notin SnapRuns
              /\ add[i].resp \in {0, StatusOK}
              /\ add[i].pc = "done" => add[i].resp = StatusOK

\* C11 (the claim as stated): once every request to /api/add is answered, N >= 1
\* of them with a committed row, and every run they spawned has committed its
\* snapshot, a read of the tables as they then are, whose query met no
\* store failure, answers with counter = N.
C11_AllRunsCommittedReadsN ==
    ( /\ \A i \in AddIds : add[i].pc = "done"
      /\ Committed # {}
      /\ \A i \in Spawned : agg[i].pc = "done" )
      => \A j \in ListIds :
           ( /\ list[j].pc = "done" /\ ~list[j].fault
             /\ list[j].events = Len(counter)
             /\ list[j].snaps = Len(counter_aggregate) )
             => list[j].resp.counter = Cardinality(Committed)

\* s is the beginning of t: every row of s is in t, at its place, unchanged.
IsPrefix(s, t) == Len(s) <= Len(t) /\ SubSeq(t, 1, Len(s)) = s

\* C12: every step keeps the committed rows of counter and counter_aggregate
\* as they are, in place (rows are only added after them); a step of Add
\* leaves counter_aggregate unchanged, a step of CreateAggregate leaves
\* counter unchanged, and a step of List, of Migrate or of main leaves both
\* unchanged.
C12_AppendOnly ==
    [][ /\ IsPrefix(counter, counter')
        /\ IsPrefix(counter_aggregate, counter_aggregate')
        /\ add' # add => counter_aggregate' = counter_aggregate
        /\ (agg' # agg /\ add' = add) => counter' = counter
        /\ (list' # list \/ mig' # mig \/ phase' # phase)
             => (counter' = counter /\ counter_aggregate' = counter_aggregate)
      ]_vars

\* Both tables filled by the requests, read, and gone through a second call
\* of Migrate.
C12_Witness ==
    /\ phase = "startup" /\ mig.pc = "done" /\ mig.had = AllTables
    /\ Len(counter) = MaxAdds /\ Len(counter_aggregate) = MaxAdds
    /\ \A j \in ListIds : list[j].pc = "done" /\ list[j].resp.status = StatusOK

\* C13: a call of Migrate, Add, CreateAggregate or List that has returned
\* holds no connection, no open transaction, no lock and no staged change,
\* whether it returned an error or not.
C13_ReleasedOnReturn ==
    /\ mig.pc \in {"done", "fatal"}
         => ~mig.conn /\ ~mig.tx /\ mig.staged = {}
    /\ \A i \in AddIds :
         /\ add[i].pc = "done"
              => /\ ~add[i].conn /\ ~add[i].tx
                 /\ add[i].lock = "NONE" /\ add[i].staged = <<>>
         /\ agg[i].pc \in {"done", "failed"}
              => /\ ~agg[i].conn /\ ~agg[i].tx
                 /\ agg[i].lock = "NONE" /\ agg[i].staged = <<>>
    /\ \A j \in ListIds : list[j].pc = "done" => ~list[j].conn

\* A run returned from one of its early returns (its transaction was open
\* and its Close waited for it), beside a run that committed.
C13_Witness ==
    /\ \E i \in AddIds : agg[i].pc = "failed" /\ agg[i].err /\ agg[i].waited
    /\ \E i \in AddIds : agg[i].pc = "done"
    /\ \A i \in AddIds : add[i].pc = "done"

\* C14: a request whose client went away before tx.Commit() returned nil has
\* committed no row, staged none and spawned no run, and is answered 500; a
\* request whose client went away after the commit keeps its row and its
\* run; and whatever became of the request, every call of the run under its
\* own context can still succeed (the connection, BEGIN, the SELECT and the
\* reading of a row, which wait for no lock).
C14_RunOutlivesRequest ==
    \A i \in AddIds :
        /\ add[i].cancelled = "early"
             => /\ add[i].row = 0 /\ i \notin Spawned
                /\ add[i].pc \notin {"spawn", "respond"}
                /\ add[i].pc = "done"
                     => /\ add[i].resp = StatusInternalServerError
                        /\ add[i].staged = <<>>
        /\ add[i].cancelled = "late"
             => /\ add[i].row # 0
                /\ add[i].pc # "spawn" => i \in Spawned
        /\ agg[i].pc = "conn"
             => ENABLED (AggConn(i) /\ agg'[i].pc = "begin")
        /\ agg[i].pc = "begin"
             => ENABLED (AggBegin(i) /\ agg'[i].pc = "query")
        /\ agg[i].pc = "query"
             => ENABLED (AggQuery(i) /\ agg'[i].pc = "rows")
        /\ ( /\ agg[i].pc = "rows"
              /\ (agg[i].lock = "NONE" \/ agg[i].cursor < Len(agg[i].view)) )
             => ENABLED (AggNext(i) /\ agg'[i].cursor = agg[i].cursor + 1)

\* A client gone before the commit, answered 500 with nothing stored, and a
\* client gone after the commit while its run had not finished: that run
\* has committed a snapshot that counts the request's row.
C14_Witness ==
    \E i, k \in AddIds :
        /\ add[i].cancelled = "early" /\ add[i].pc = "done"
        /\ add[k].cancelled = "late" /\ add[k].pc = "done"
        /\ add[k].runAtCancel \in {"none", "running"}
        /\ agg[k].pc = "done"
        /\ Len(counter) = 1 /\ Len(counter_aggregate) = 1
        /\ counter_aggregate[1].counts = 1

\* C15: the file holds both tables or none; while a call of Migrate has not
\* returned nil the tables are those the file had at the call, and they
\* still are when it has returned an error, whichever step failed.
C15_MigrateAtomic ==
    /\ tables \in {{}, AllTables}
    /\ (phase = "startup" /\ mig.pc # "done") => tables = mig.had
    /\ mig.pc = "fatal" => (mig.failedAt # "none" /\ tables = mig.had)

\* Migrate on an empty file returned an error from the second CREATE, after
\* the first CREATE had succeeded in the transaction: the file is empty.
C15_Witness ==
    /\ phase = "startup" /\ mig.pc = "fatal" /\ mig.failedAt = "create2"
    /\ mig.had = {} /\ tables = {}

\* C16: counter_aggregate never holds more rows than counter; each run
\* commits at most one snapshot and each committed request has spawned at
\* most one run; and once every committed request has spawned its run and
\* every spawned run has committed, the two tables hold as many rows.
C16_SnapshotsAtMostEvents ==
    /\ Len(counter_aggregate) <= Len(counter)
    /\ Len(counter_aggregate) = Cardinality(SnapRuns)
    /\ SnapRuns \subseteq Spawned
    /\ {i \in Spawned : agg[i].pc = "done"} \subseteq SnapRuns
    /\ Cardinality(Spawned) <= Len(counter)
    /\ (Spawned = Committed /\ \A i \in Spawned : agg[i].pc = "done")
         => Len(counter_aggregate) = Len(counter)

\* Every request committed and every run committed: as many snapshots as
\* events, after a state with fewer.
C16_Witness ==
    /\ \A i \in AddIds : add[i].pc = "done" /\ agg[i].pc = "done"
    /\ Len(counter) = MaxAdds /\ Len(counter_aggregate) = MaxAdds
    /\ \E k \in 1..Len(snapLog) : snapLog[k].events > k

\* C17 (the claim as stated): a read answered 200 returns the zero-state, or
\* the counts and the created_at of a row that was in counter_aggregate when
\* the read's query ran and is the snapshot of a run that has committed (its
\* tx.Commit() returned nil).
C17_ReadsCommittedOnly ==
    \A j \in ListIds :
        (list[j].pc = "done" /\ list[j].resp.status = StatusOK)
          => /\ list[j].snaps <= Len(counter_aggregate)
             /\ \/ /\ list[j].snaps = 0
                   /\ list[j].resp.counter = 0
                   /\ list[j].resp.lastDate = EpochZero
                \/ \E k \in 1..list[j].snaps :
                     /\ list[j].resp.counter = counter_aggregate[k].counts
                     /\ list[j].resp.lastDate =
                          FormatRFC3339(counter_aggregate[k].created_at)
                     /\ agg[snapLog[k].run].pc = "done"

====
